---- MODULE Spec2Model ----
(***************************************************************************)
(* Poke state machine of anti_poke_plugin/plugin.py.                       *)
(*                                                                         *)
(* The plugin runs on one asyncio event loop: a coroutine runs without     *)
(* interruption from one suspension point (await asyncio.sleep, await      *)
(* send_command, await generate_reply) to the next.  "async with" on the   *)
(* counter lock never suspends, because no holder of the lock awaits while *)
(* holding it.  Each action below is one such uninterrupted segment.       *)
(*                                                                         *)
(* A coroutine suspended in asyncio.sleep resumes when its timer is due:    *)
(* the clock does not pass a due timer.  How long send_command and         *)
(* generate_reply take is left open.                                       *)
(*                                                                         *)
(* Time is in whole seconds; time.time() is the variable now.  The clock   *)
(* starts at StartTime > 0, as time.time() is an epoch time far above any  *)
(* duration of the program, so that the value 0 of a timestamp field       *)
(* always means "never".                                                   *)
(***************************************************************************)
EXTENDS Integers, Sequences, FiniteSets, Bags, TLC

\* ------------------------------------------------------------------ bounds
Horizon == 3          \* seconds explored after StartTime, may_poke enabled
LongHorizon == 5      \* seconds explored after StartTime, may_poke disabled
StartTime == 10       \* value of time.time() in the initial state
MaxHandlers == 2      \* execute coroutines alive at once, AntiPokeCommand's
                      \* and AntiPokeAction's together
MaxTasks == 2         \* decay tasks created in one behaviour

\* -------------------------------------------------------- program constants
POKE_BACK_COOLDOWN == 10
POKE_DELAY == 3

\* config.toml: the parameter sets explored.  enable_may_poke is the switch
\* of section components, the rest is section poke_value.
Config(enable_may_poke, counts) ==
    [enable_may_poke |-> enable_may_poke,
     min_silence_time |-> 1, max_silence_time |-> 2,
     min_silence_counts |-> counts[1], max_silence_counts |-> counts[2],
     counts_decay_interval |-> 2, insensitivity_duration |-> 1]

\* both components enabled, the threshold drawn from a proper range
ConfigSet == { Config(TRUE, <<2, 3>>) }
\* AntiPokeCommand alone, the threshold drawn from a range or fixed at 5
CommandConfigSet == { Config(FALSE, c) : c \in { <<2, 3>>, <<5, 5>> } }

VARIABLES
    \* _POKE_STATE
    poke_count, is_silent, silence_start_time, last_poke_time,
    current_silence_duration, current_poke_threshold, decay_task,
    counter_lock, last_poke_back_time, last_poke_received_time,
    \* the event loop and its environment
    now,          \* time.time()
    end_time,     \* the time up to which the behaviour is explored
    config,       \* content of config.toml
    tasks,        \* every decay task created so far, in creation order
    cmd,          \* the suspended AntiPokeCommand.execute coroutines (a bag)
    act,          \* the suspended AntiPokeAction.execute coroutines (a bag)
    \* observation of the behaviour
    last_sent_at, \* time of the latest outbound SEND_POKE, 0 if none
    returned,     \* what the step just taken returned to its caller, if it
                  \* ended a coroutine
    n_inc,        \* increments of poke_count since it was last fresh
    n_dec,        \* decay decrements of poke_count since it was last fresh
    writes        \* how the step just taken wrote poke_count or last_poke_time:
                  \* "locked", "unlocked" if a write was made without the
                  \* counter lock held, "none" if it wrote neither

poke_state == << poke_count, is_silent, silence_start_time, last_poke_time,
                 current_silence_duration, current_poke_threshold, decay_task,
                 counter_lock, last_poke_back_time, last_poke_received_time >>
sent == << last_sent_at >>
vars == << poke_state, now, end_time, config, tasks, cmd, act, sent, returned,
           n_inc, n_dec, writes >>

\* -------------------------------------------------- configuration properties
SILENCE_DURATION_MIN == config.min_silence_time
SILENCE_DURATION_MAX == config.max_silence_time
POKE_COUNT_MIN == config.min_silence_counts
POKE_COUNT_MAX == config.max_silence_counts
DECAY_INTERVAL == config.counts_decay_interval
INSENSITIVITY_DURATION == config.insensitivity_duration

\* ------------------------------------------------------------ initial state
\* A suspended AntiPokeCommand.execute coroutine: pc is the await it is
\* suspended at, current_time and suffix are its local variables
\* (current_time is not read again once the coroutine is in generate_reply).
Coroutine(pc, suffix) ==
    [pc |-> pc, current_time |-> IF pc = "reply" THEN 0 ELSE now,
     suffix |-> suffix]
One(c) == SetToBag({c})

\* A suspended AntiPokeAction.execute coroutine: pc is the await it is
\* suspended at, wake the time its asyncio.sleep(3) is over (0 once it is).
ActCoroutine(pc) ==
    [pc |-> pc, wake |-> IF pc = "sleep" THEN now + POKE_DELAY ELSE 0]

\* the step ended no coroutine
NoReturn == [who |-> "none", kind |-> "none", suffix |-> "none",
             outcome |-> "none"]

InitWith(configs, horizon) ==
    /\ poke_count = 0
    /\ is_silent = FALSE
    /\ silence_start_time = 0
    /\ last_poke_time = 0
    /\ current_silence_duration = 0
    /\ current_poke_threshold = 0
    /\ decay_task = 0
    /\ counter_lock = "None"
    /\ last_poke_back_time = 0
    /\ last_poke_received_time = 0
    /\ now = StartTime
    /\ end_time = StartTime + horizon
    /\ config \in configs
    /\ tasks = << >>
    /\ cmd = EmptyBag
    /\ act = EmptyBag
    /\ last_sent_at = 0
    /\ returned = NoReturn
    /\ n_inc = 0
    /\ n_dec = 0
    /\ writes = "none"

Init == InitWith(ConfigSet, Horizon)
InitCommand == InitWith(CommandConfigSet, LongHorizon)
InitDecay == InitWith({Config(FALSE, <<2, 3>>)}, Horizon)

\* ------------------------------------------------------------------ helpers
\* variants of line 263 a slip would produce
SilenceElapsedAtBoundary(current_time) ==
    current_time - silence_start_time >= current_silence_duration
SilenceElapsedConfigured(current_time) ==
    current_time - silence_start_time > SILENCE_DURATION_MIN

\* line 263: the silence window has elapsed (strictly)
SilenceElapsed(current_time) ==
    current_time - silence_start_time > current_silence_duration

\* variant of line 265 that keeps the counter
ResetCountKept(n) == n

\* line 265: the value the counter takes when silence ends
ResetCount(n) == n - n

\* variant of line 285 with the comparison turned round
can_poke_back_flipped(current_time) ==
    ~ ( /\ last_poke_back_time > 0
        /\ current_time - last_poke_back_time > POKE_BACK_COOLDOWN )

\* lines 282-286 (and 171-174): the back-poke cooldown has passed
can_poke_back(current_time) ==
    ~ ( /\ last_poke_back_time > 0
        /\ current_time - last_poke_back_time < POKE_BACK_COOLDOWN )

\* variant of line 466 with the end of the window included
check_insensitivity_period_inclusive(current_time) ==
    /\ last_poke_received_time > 0
    /\ current_time - last_poke_received_time <= INSENSITIVITY_DURATION

\* lines 464-468, once INSENSITIVITY_DURATION has been read
check_insensitivity_period(current_time) ==
    /\ last_poke_received_time > 0
    /\ current_time - last_poke_received_time < INSENSITIVITY_DURATION

\* variant of line 432 that tests the handle only
NeedsDecayTaskHandleOnly == decay_task = 0

\* variant of line 432 without the test
NeedsDecayTaskAlways == TRUE

\* line 432: no task handle, or the task the handle names is done()
TaskDone(t) == tasks[t].st \in {"failed", "cancelled"}
NeedsDecayTask == decay_task = 0 \/ TaskDone(decay_task)

\* lines 432-434: the handle and the task list after the call
start_decay_task_if_needed ==
    IF NeedsDecayTask
    THEN [handle |-> Len(tasks) + 1,
          tasks |-> Append(tasks, [st |-> "created", wake |-> 0])]
    ELSE [handle |-> decay_task, tasks |-> tasks]

\* lines 37-43: inside a coroutine asyncio.Lock() always succeeds
get_or_create_lock == "Lock"

\* variant of line 308 that stores a count instead of adding to it
IncrementedOnce(n) == IF n = 0 THEN 1 ELSE n

\* line 308 / line 312
Incremented(n) == n + 1

\* variant of line 318 that compares with the configured maximum
ReachesThresholdOfMax(count, threshold) == count >= POKE_COUNT_MAX

\* variant of line 318 that needs the threshold to be passed
ReachesThresholdStrict(count, threshold) == count > threshold

\* line 318
ReachesThreshold(count, threshold) == count >= threshold

\* lines 385-394: the values random.randint may return
SilenceDurations == SILENCE_DURATION_MIN .. SILENCE_DURATION_MAX
PokeThresholds == POKE_COUNT_MIN .. POKE_COUNT_MAX

\* variant of lines 406-409 without the test of the time elapsed
DecayDueUntimed(current_time) == ~ is_silent /\ poke_count > 0

\* lines 406-409: the decay loop's test on waking
DecayDue(current_time) ==
    /\ ~ is_silent
    /\ poke_count > 0
    /\ current_time - last_poke_time >= DECAY_INTERVAL

\* line 413 / line 417
Decayed(n) == IF n - 1 > 0 THEN n - 1 ELSE 0

\* a SEND_POKE leaves the agent now
EmitPoke == last_sent_at' = now

\* an arriving event is handled if a coroutine can still be started
CanStart == BagCardinality(cmd) + BagCardinality(act) < MaxHandlers

\* execute returns without having suspended
ReturnAtOnce(kind, suffix, outcome) ==
    /\ cmd' = cmd
    /\ returned' = [who |-> "command", kind |-> kind, suffix |-> suffix,
                    outcome |-> outcome]

\* execute suspends at its first await
Suspend(pc, suffix) ==
    /\ cmd' = cmd (+) One(Coroutine(pc, suffix))
    /\ returned' = NoReturn

\* the event a suspended coroutine handles
KindOf(c) == IF c.pc \in {"follow_sleep", "follow_sent"} THEN "other"
                                                         ELSE "self"

\* a resumed coroutine returns
Return(c, outcome) ==
    /\ cmd' = cmd (-) One(c)
    /\ returned' = [who |-> "command", kind |-> KindOf(c),
                    suffix |-> c.suffix, outcome |-> outcome]

\* --------------------------------------------- AntiPokeCommand.execute, entry
\* config.toml is read again by every use of a configuration property, and
\* the read or the use of the value read can raise.  In the actions below
\* fail names the line of execute at which that happens in the segment, if
\* it happens; "none" when the line named is not reached.

\* lines 262-270: what the silence gate makes of the state an event meets
Blocked == is_silent /\ ~ SilenceElapsed(now)
Expired == is_silent /\ SilenceElapsed(now)
CountIn == IF Expired THEN ResetCount(poke_count) ELSE poke_count
IncIn == IF Expired THEN 0 ELSE n_inc
DecIn == IF Expired THEN 0 ELSE n_dec

\* lines 264-265 run outside any lock, lines 306-308 inside "async with"
GateWrites == IF Expired THEN "unlocked" ELSE "none"
CountWrites == IF Expired THEN "unlocked" ELSE "locked"

\* variant of lines 262-266 in which such a handler counts the event as well
SilenceGateCounting ==
    /\ is_silent' = FALSE
    /\ poke_count' = CountIn + 1
    /\ n_inc' = IncIn
    /\ n_dec' = DecIn
    /\ writes' = GateWrites
    /\ UNCHANGED << silence_start_time, last_poke_time,
                    current_silence_duration, current_poke_threshold,
                    decay_task, counter_lock, last_poke_back_time,
                    last_poke_received_time, tasks >>

\* lines 262-266 for a handler that goes on without touching the counter
SilenceGateOnly ==
    /\ is_silent' = FALSE
    /\ poke_count' = CountIn
    /\ n_inc' = IncIn
    /\ n_dec' = DecIn
    /\ writes' = GateWrites
    /\ UNCHANGED << silence_start_time, last_poke_time,
                    current_silence_duration, current_poke_threshold,
                    decay_task, counter_lock, last_poke_back_time,
                    last_poke_received_time, tasks >>

\* lines 262-270: an event of any kind during the silence window
ExecuteSilenced ==
    /\ CanStart
    /\ Blocked
    /\ ReturnAtOnce("any", "none", "Ignore")
    /\ writes' = "none"
    /\ UNCHANGED << poke_state, now, end_time, config, tasks, act, sent,
                    n_inc, n_dec >>

\* lines 262-273: a message that is not a poke notice
ExecuteNotNotice ==
    /\ CanStart
    /\ ~ Blocked
    /\ SilenceGateOnly
    /\ ReturnAtOnce("message", "none", "NotApplicable")
    /\ UNCHANGED << now, end_time, config, act, sent >>

\* lines 262-296: a poke notice whose target is not the agent
ExecuteThirdParty(fail, follow) ==
    /\ CanStart
    /\ ~ Blocked
    /\ SilenceGateOnly
    /\ IF fail = "line290"
       THEN ReturnAtOnce("other", "none", "Failure")
       ELSE IF follow
            THEN Suspend("follow_sleep", "none")
            ELSE ReturnAtOnce("other", "none", "NoOp")
    /\ UNCHANGED << now, end_time, config, act, sent >>

\* lines 262-299: a poke notice aimed at the agent that is not accepted
\* (line 466 is the read of INSENSITIVITY_DURATION)
ExecuteInsensitive(fail) ==
    /\ CanStart
    /\ ~ Blocked
    /\ last_poke_received_time > 0
    /\ fail = "line466" \/ check_insensitivity_period(now)
    /\ SilenceGateOnly
    /\ ReturnAtOnce("self", "none",
                    IF fail = "line466" THEN "Failure" ELSE "Insensitive")
    /\ UNCHANGED << now, end_time, config, act, sent >>

\* variant of line 330 without the test of is_silent
AnswerReflectingInSilence(fail, escalated, suffix, reflect, reply) ==
    IF fail = "line330"
    THEN ReturnAtOnce("self", suffix, "Failure")
    ELSE IF reflect /\ can_poke_back(now)
         THEN Suspend("reflect_sleep", suffix)
         ELSE IF ~ can_poke_back(now) /\ ~ escalated
              THEN IF reply
                   THEN Suspend("reply", suffix)
                   ELSE ReturnAtOnce("self", suffix, "NoOp")
              ELSE Suspend("reply", suffix)

\* lines 330-344: how an accepted poke is answered; escalated is the value
\* of is_silent the lines read
Answer(fail, escalated, suffix, reflect, reply) ==
    IF fail = "line330"
    THEN ReturnAtOnce("self", suffix, "Failure")
    ELSE IF reflect /\ ~ escalated /\ can_poke_back(now)
         THEN Suspend("reflect_sleep", suffix)
         ELSE IF ~ can_poke_back(now) /\ ~ escalated
              THEN IF reply
                   THEN Suspend("reply", suffix)
                   ELSE ReturnAtOnce("self", suffix, "NoOp")
              ELSE Suspend("reply", suffix)

\* lines 318-344 once the threshold to compare with is known
Escalate(fail, count, duration, threshold, reflect, reply) ==
    IF ReachesThreshold(count, threshold)
    THEN /\ is_silent' = TRUE
         /\ silence_start_time' = now
         /\ CASE fail = "line326" ->
                   \* generate_random_silence_params raises at once
                   /\ current_silence_duration' = duration
                   /\ current_poke_threshold' = threshold
                   /\ ReturnAtOnce("self", "protest", "Failure")
              [] fail = "line326_partial" ->
                   \* it raises once the duration is drawn and stored
                   /\ current_silence_duration' \in SilenceDurations
                   /\ current_poke_threshold' = threshold
                   /\ ReturnAtOnce("self", "protest", "Failure")
              [] OTHER ->
                   /\ current_silence_duration' \in SilenceDurations
                   /\ current_poke_threshold' \in PokeThresholds
                   /\ Answer(fail, TRUE, "protest", reflect, reply)
    ELSE /\ is_silent' = FALSE
         /\ silence_start_time' = silence_start_time
         /\ current_silence_duration' = duration
         /\ current_poke_threshold' = threshold
         /\ Answer(fail, FALSE, "mention", reflect, reply)

\* lines 262-344: a poke notice aimed at the agent that is accepted
ExecuteAccepted(fail, reflect, reply) ==
    LET started == start_decay_task_if_needed
        count == Incremented(CountIn)
    IN  /\ CanStart
        /\ ~ Blocked
        /\ ~ check_insensitivity_period(now)
        /\ Len(started.tasks) <= MaxTasks
        /\ last_poke_received_time' = now
        /\ decay_task' = started.handle
        /\ tasks' = started.tasks
        /\ counter_lock' = get_or_create_lock
        /\ last_poke_time' = now
        /\ poke_count' = count
        /\ n_inc' = IncIn + 1
        /\ n_dec' = DecIn
        /\ writes' = CountWrites
        /\ IF current_poke_threshold = 0
           THEN CASE fail = "line316" ->
                       \* generate_random_silence_params raises at once
                       /\ is_silent' = FALSE
                       /\ UNCHANGED << silence_start_time,
                                       current_silence_duration,
                                       current_poke_threshold >>
                       /\ ReturnAtOnce("self", "none", "Failure")
                  [] fail = "line316_partial" ->
                       \* it raises once the duration is drawn and stored
                       /\ is_silent' = FALSE
                       /\ current_silence_duration' \in SilenceDurations
                       /\ UNCHANGED << silence_start_time,
                                       current_poke_threshold >>
                       /\ ReturnAtOnce("self", "none", "Failure")
                  [] OTHER ->
                       \E d \in SilenceDurations, t \in PokeThresholds :
                          Escalate(fail, count, d, t, reflect, reply)
           ELSE Escalate(fail, count, current_silence_duration,
                         current_poke_threshold, reflect, reply)
        /\ UNCHANGED << last_poke_back_time, now, end_time, config, act,
                        sent >>

\* ------------------------------------- AntiPokeCommand.execute, after a sleep
Suspended == BagToSet(cmd)
Sleeping(c) == c.pc \in {"follow_sleep", "reflect_sleep"}
Sent(c) == c.pc \in {"follow_sent", "reflect_sent"}

\* lines 291-292 and 331-332: the sleep is over, send_command runs
PokeSend(c, ok) ==
    /\ Sleeping(c)
    /\ now >= c.current_time + POKE_DELAY
    /\ writes' = "none"
    /\ IF ok
       THEN /\ EmitPoke
            /\ cmd' = (cmd (-) One(c)) (+)
                      One([c EXCEPT !.pc = IF c.pc = "follow_sleep"
                                           THEN "follow_sent"
                                           ELSE "reflect_sent"])
            /\ returned' = NoReturn
       ELSE /\ Return(c, "Failure")                     \* send_command raises
            /\ UNCHANGED sent
    /\ UNCHANGED << poke_state, now, end_time, config, tasks, act, n_inc,
                    n_dec >>

\* lines 293-294 and 333-334: send_command has returned
PokeStamp(c) ==
    /\ Sent(c)
    /\ last_poke_back_time' = c.current_time
    /\ writes' = "none"
    /\ Return(c, IF c.pc = "follow_sent" THEN "FollowPoke" ELSE "ReflectPoke")
    /\ UNCHANGED << poke_count, is_silent, silence_start_time, last_poke_time,
                    current_silence_duration, current_poke_threshold,
                    decay_task, counter_lock, last_poke_received_time,
                    now, end_time, config, tasks, act, sent, n_inc, n_dec >>

\* lines 338-339, 343-344 and 441-452: generate_reply has returned or raised
ReplyDone(c, ok) ==
    /\ c.pc = "reply"
    /\ writes' = "none"
    /\ Return(c, IF ok THEN "GenerateReply" ELSE "Failure")
    /\ UNCHANGED << poke_state, now, end_time, config, tasks, act, sent,
                    n_inc, n_dec >>

\* ------------------------------------------------------ AntiPokeAction.execute
\* Nothing in execute keeps a second execute from starting while another is
\* suspended.  send_command and store_action_info are awaits of the host
\* framework: each either suspends the coroutine or completes in the segment
\* that calls it.
Acting == BagToSet(act)

\* the value execute returns, or "Raised" when it raises
ActReturns(outcome) ==
    returned' = [who |-> "action", kind |-> "none", suffix |-> "none",
                 outcome |-> outcome]

\* What the lookup of lines 155-166 gives: user_id is set or db_get finds
\* the person, db_get finds nobody, db_get suspends, db_get raises.
Lookups(faults) ==
    {"found", "missing"} \cup (IF faults THEN {"raises"} ELSE {})

\* action_data["case"] is read at line 169 and random.random() at line 185:
\* the values that make a difference after the lookup
Cases(lookup) ==
    IF lookup = "found" THEN {"request", "joke", "other"} ELSE {"request"}
Jokes(lookup, case) ==
    IF lookup = "found" /\ case = "joke" THEN BOOLEAN ELSE {FALSE}

\* lines 162-193, up to the sleep, once the lookup is over; rest is the
\* other suspended coroutines
ActFrom(rest, lookup, case, joke) ==
    /\ IF lookup = "raises"
       THEN /\ ActReturns("Raised")
            /\ act' = rest
            /\ UNCHANGED last_poke_time
            /\ writes' = "none"
       ELSE IF lookup = "missing"
       THEN /\ ActReturns("NoTarget")
            /\ act' = rest
            /\ UNCHANGED last_poke_time
            /\ writes' = "none"
       ELSE IF ~ can_poke_back(now)
            THEN /\ ActReturns("Cooldown")
                 /\ act' = rest
                 /\ UNCHANGED last_poke_time
                 /\ writes' = "none"
            ELSE /\ last_poke_time' = now       \* line 176, no lock
                 /\ writes' = "unlocked"
                 /\ IF case = "request" \/ (case = "joke" /\ joke)
                    THEN /\ act' = rest (+) One(ActCoroutine("sleep"))
                         /\ returned' = NoReturn
                    ELSE /\ ActReturns(IF case = "joke" THEN "NoJoke"
                                                        ELSE "BadCase")
                         /\ act' = rest
    /\ UNCHANGED << poke_count, is_silent, silence_start_time,
                    current_silence_duration, current_poke_threshold,
                    decay_task, counter_lock, last_poke_back_time,
                    last_poke_received_time, now, end_time, config, tasks,
                    cmd, sent, n_inc, n_dec >>

\* lines 153-193 from the entry, up to the first await that suspends
ActionExecute(lookup, case, joke) ==
    /\ config.enable_may_poke                \* lines 100-101
    /\ CanStart
    /\ IF lookup = "suspends"
       THEN /\ act' = act (+) One(ActCoroutine("db_get"))
            /\ returned' = NoReturn
            /\ writes' = "none"
            /\ UNCHANGED << poke_state, now, end_time, config, tasks, cmd,
                            sent, n_inc, n_dec >>
       ELSE ActFrom(act, lookup, case, joke)

\* lines 157-193: db_get has returned or raised
ActionLookup(a, lookup, case, joke) ==
    /\ a.pc = "db_get"
    /\ ActFrom(act (-) One(a), lookup, case, joke)

\* How far a resumed execute gets in lines 180-182 / 187-189 and 195-205:
\* send_command raises, suspends, or returns; after it store_action_info
\* raises, suspends, or returns and execute returns its result.
SendPaths(faults) ==
    {"send_suspends", "store_suspends", "returns"} \cup
    (IF faults THEN {"send_raises", "store_raises"} ELSE {})
StorePaths(faults) ==
    {"store_suspends", "returns"} \cup
    (IF faults THEN {"store_raises"} ELSE {})

\* the coroutine a goes on as far as path says
ActGoes(a, path) ==
    IF path \in {"send_suspends", "store_suspends"}
    THEN /\ act' = (act (-) One(a)) (+)
                   One(ActCoroutine(IF path = "send_suspends"
                                    THEN "send_command" ELSE "store_info"))
         /\ returned' = NoReturn
    ELSE /\ act' = act (-) One(a)
         /\ ActReturns(IF path = "returns" THEN "Poked" ELSE "Raised")

\* lines 179-182 and 186-189: the sleep is over, send_command runs
ActionSend(a, path) ==
    /\ a.pc = "sleep"
    /\ now >= a.wake
    /\ writes' = "none"
    /\ IF path = "send_raises" THEN UNCHANGED sent ELSE EmitPoke
    /\ ActGoes(a, path)
    /\ UNCHANGED << poke_state, now, end_time, config, tasks, cmd, n_inc,
                    n_dec >>

\* lines 181-182 and 188-189: send_command has returned, store_info runs
ActionSent(a, path) ==
    /\ a.pc = "send_command"
    /\ writes' = "none"
    /\ ActGoes(a, path)
    /\ UNCHANGED << poke_state, now, end_time, config, tasks, cmd, sent,
                    n_inc, n_dec >>

\* lines 182 and 189: store_action_info has returned or raised
ActionStored(a, ok) ==
    /\ a.pc = "store_info"
    /\ writes' = "none"
    /\ ActGoes(a, IF ok THEN "returns" ELSE "store_raises")
    /\ UNCHANGED << poke_state, now, end_time, config, tasks, cmd, sent,
                    n_inc, n_dec >>

\* -------------------------------------------------------- poke_count_decay_task
Tasks == 1 .. Len(tasks)

\* the way the task ends at "except Exception", lines 422-426
TaskFails(t) ==
    /\ tasks' = [tasks EXCEPT ![t] = [st |-> "failed", wake |-> 0]]
    /\ decay_task' = 0

\* lines 402-404: the task's first run, up to its first sleep
DecayBegin(t, config_ok) ==
    /\ returned' = NoReturn
    /\ writes' = "none"
    /\ tasks[t].st = "created"
    /\ IF config_ok
       THEN /\ tasks' = [tasks EXCEPT ![t] = [st |-> "sleeping",
                                              wake |-> now + DECAY_INTERVAL]]
            /\ UNCHANGED decay_task
       ELSE TaskFails(t)                      \* line 404 raises
    /\ UNCHANGED << poke_count, is_silent, silence_start_time, last_poke_time,
                    current_silence_duration, current_poke_threshold,
                    counter_lock, last_poke_back_time,
                    last_poke_received_time, now, end_time, config, cmd,
                    act, sent, n_inc, n_dec >>

\* lines 404-418: one wake of the loop, up to its next sleep; the read of
\* DECAY_INTERVAL can raise at line 409, when lines 406-407 get there, and
\* at line 404 on the way into the next sleep
DecayWake(t, fail) ==
    /\ returned' = NoReturn
    /\ tasks[t].st = "sleeping"
    /\ now >= tasks[t].wake
    /\ fail = "line409" => ~ is_silent /\ poke_count > 0
    /\ IF fail # "line409" /\ DecayDue(now)
       THEN /\ counter_lock' = get_or_create_lock
            /\ poke_count' = Decayed(poke_count)
            /\ n_dec' = n_dec + 1
            /\ writes' = "locked"
       ELSE /\ UNCHANGED << counter_lock, poke_count, n_dec >>
            /\ writes' = "none"
    /\ IF fail = "none"
       THEN /\ tasks' = [tasks EXCEPT ![t].wake = now + DECAY_INTERVAL]
            /\ UNCHANGED decay_task
       ELSE TaskFails(t)
    /\ UNCHANGED << is_silent, silence_start_time, last_poke_time,
                    current_silence_duration, current_poke_threshold,
                    last_poke_back_time, last_poke_received_time, now,
                    end_time, config, cmd, act, sent, n_inc >>

\* lines 419-421: the task is cancelled where it is suspended
DecayCancel(t) ==
    /\ returned' = NoReturn
    /\ tasks[t].st \in {"created", "sleeping"}
    /\ tasks' = [tasks EXCEPT ![t] = [st |-> "cancelled", wake |-> 0]]
    /\ writes' = "none"
    /\ UNCHANGED << poke_state, now, end_time, config, cmd, act, sent,
                    n_inc, n_dec >>

\* ----------------------------------------------------------------- environment
\* a timer of asyncio.sleep is due, or a task waits for its first run
TimerDue ==
    \/ \E c \in Suspended :
          Sleeping(c) /\ now >= c.current_time + POKE_DELAY
    \/ \E a \in Acting : a.pc = "sleep" /\ now >= a.wake
    \/ \E t \in Tasks :
          \/ tasks[t].st = "created"
          \/ tasks[t].st = "sleeping" /\ now >= tasks[t].wake

Tick ==
    /\ returned' = NoReturn
    /\ writes' = "none"
    /\ now < end_time
    /\ ~ TimerDue
    /\ now' = now + 1
    /\ UNCHANGED << poke_state, end_time, config, tasks, cmd, act, sent,
                    n_inc, n_dec >>

\* What can go wrong in a segment: nothing, or, when faults are explored,
\* config.toml unreadable or unusable at the line named, send_command or
\* generate_reply raising.
Oks(faults) == IF faults THEN BOOLEAN ELSE {TRUE}
Failures(faults, lines) == IF faults THEN {"none"} \cup lines ELSE {"none"}
AcceptLines == {"line316", "line316_partial", "line326", "line326_partial",
                "line330"}

\* The steps of AntiPokeCommand and of its decay task; faults are explored
\* in the handlers (faults) and in the task (task_faults).
CommandNext(faults, task_faults) ==
    \/ ExecuteSilenced
    \/ ExecuteNotNotice
    \/ \E fail \in Failures(faults, {"line290"}), follow \in BOOLEAN :
          ExecuteThirdParty(fail, follow)
    \/ \E fail \in Failures(faults, {"line466"}) : ExecuteInsensitive(fail)
    \/ \E fail \in Failures(faults, AcceptLines), reflect \in BOOLEAN,
          reply \in BOOLEAN : ExecuteAccepted(fail, reflect, reply)
    \/ \E c \in Suspended, ok \in Oks(faults) : PokeSend(c, ok)
    \/ \E c \in Suspended : PokeStamp(c)
    \/ \E c \in Suspended, ok \in Oks(faults) : ReplyDone(c, ok)
    \/ \E t \in Tasks, config_ok \in Oks(task_faults) :
          DecayBegin(t, config_ok)
    \/ \E t \in Tasks,
          fail \in Failures(task_faults, {"line404", "line409"}) :
          DecayWake(t, fail)
    \/ Tick

\* The steps of AntiPokeAction.
ActionNext(faults) ==
    \/ \E lookup \in Lookups(faults) \cup {"suspends"} :
          \E case \in Cases(lookup) : \E joke \in Jokes(lookup, case) :
             ActionExecute(lookup, case, joke)
    \/ \E a \in Acting, lookup \in Lookups(faults) :
          \E case \in Cases(lookup) : \E joke \in Jokes(lookup, case) :
             ActionLookup(a, lookup, case, joke)
    \/ \E a \in Acting, path \in SendPaths(faults) : ActionSend(a, path)
    \/ \E a \in Acting, path \in StorePaths(faults) : ActionSent(a, path)
    \/ \E a \in Acting, ok \in Oks(faults) : ActionStored(a, ok)

\* Both components, nothing fails.
Next == CommandNext(FALSE, FALSE) \/ ActionNext(FALSE)
Spec == Init /\ [][Next]_vars

\* AntiPokeCommand alone (components.enable_may_poke = false), nothing fails.
NextCommand == CommandNext(FALSE, FALSE)
SpecCommand == InitCommand /\ [][NextCommand]_vars

\* Both components, with faults and with cancellation of the decay task.
NextFault ==
    \/ CommandNext(TRUE, TRUE)
    \/ ActionNext(TRUE)
    \/ \E t \in Tasks : DecayCancel(t)
SpecFault == Init /\ [][NextFault]_vars

\* AntiPokeCommand alone; its handlers do not fail, the decay task may fail
\* and may be cancelled.
NextDecay ==
    \/ CommandNext(FALSE, TRUE)
    \/ \E t \in Tasks : DecayCancel(t)
SpecDecay == InitDecay /\ [][NextDecay]_vars

\* ===================================================================== claims
\* What a step is, read off the coroutines and the value returned.

\* a step in which AntiPokeCommand.execute is entered for an arriving event
CommandEntry ==
    \/ returned'.who = "command" /\ cmd' = cmd
    \/ BagCardinality(cmd') = BagCardinality(cmd) + 1

\* the kind of the event of a CommandEntry step ("any" when it was ignored
\* before its kind was looked at)
EntryKind ==
    IF cmd' = cmd THEN returned'.kind
                  ELSE KindOf(CHOOSE c \in BagToSet(cmd' (-) cmd) : TRUE)

\* a step in which the agent emits SEND_POKE
EmissionStep ==
    \/ cmd' # cmd /\ BagCardinality(cmd') = BagCardinality(cmd)
    \/ /\ \E a \in Acting : a.pc = "sleep" /\ CopiesIn(a, act') < CopiesIn(a, act)
       /\ last_sent_at' = now

\* ------------------------------------------------------------------------- C1
\* C1: any two outbound pokes of the agent (reflect-poke, follow-poke,
\* may_poke action poke) are at least POKE_BACK_COOLDOWN seconds apart.
\* Stated on the step that emits a poke: the previous emission, if any, is
\* at least the cooldown back.
CooldownSpacing ==
    [][ EmissionStep =>
           \/ last_sent_at = 0
           \/ now - last_sent_at >= POKE_BACK_COOLDOWN ]_vars

\* ------------------------------------------------------------------------- C2
\* C2: an event that arrives while is_silent holds and
\* now - silence_start_time <= current_silence_duration is answered by
\* Ignore: the handler returns at once, nothing is sent, no reply is
\* generated, and the eight fields of the poke state keep their values.
SilenceIgnore ==
    [][ ( /\ CommandEntry
          /\ is_silent
          /\ now - silence_start_time <= current_silence_duration )
        => /\ returned'.outcome = "Ignore"
           /\ cmd' = cmd
           /\ last_sent_at' = last_sent_at
           /\ UNCHANGED << poke_count, last_poke_time,
                           last_poke_received_time, last_poke_back_time,
                           is_silent, silence_start_time,
                           current_poke_threshold,
                           current_silence_duration >> ]_vars

\* an event was ignored on the last second of the silence window
SilenceIgnoreWitness ==
    /\ returned.outcome = "Ignore"
    /\ is_silent
    /\ now - silence_start_time = current_silence_duration
    /\ poke_count >= 2

\* ------------------------------------------------------------------------- C3
\* a step in which a poke aimed at the agent is accepted (nothing fails)
AcceptedStep ==
    /\ CommandEntry
    /\ EntryKind = "self"
    /\ returned'.outcome # "Insensitive"

\* the suffix the handler of a CommandEntry step selected
EntrySuffix ==
    IF cmd' = cmd THEN returned'.suffix
                  ELSE (CHOOSE c \in BagToSet(cmd' (-) cmd) : TRUE).suffix

FixedAtFive == POKE_COUNT_MIN = 5 /\ POKE_COUNT_MAX = 5

\* is_silent rises exactly in the step of an accepted poke that brings
\* poke_count to the threshold compared at line 318 or above it (a threshold
\* drawn in that very step is at least POKE_COUNT_MIN)
EscalationExact ==
    /\ (~ is_silent /\ is_silent') =>
          /\ AcceptedStep
          /\ poke_count' = poke_count + 1
          /\ poke_count' >= IF current_poke_threshold = 0
                            THEN POKE_COUNT_MIN
                            ELSE current_poke_threshold
    /\ (AcceptedStep /\ ~ is_silent') =>
          poke_count' < current_poke_threshold'

\* C3 as stated: is_silent rises exactly when an accepted poke brings
\* poke_count to current_poke_threshold or above; and with the threshold
\* fixed at 5, of five accepted pokes counted from a fresh counter the
\* first four leave is_silent false and the fifth sets is_silent with
\* silence_start_time = now and selects the protest suffix.
EscalationAsStated ==
    [][ /\ EscalationExact
        /\ (FixedAtFive /\ AcceptedStep) =>
              /\ n_inc' <= 4 => ~ is_silent'
              /\ n_inc' = 5 => /\ is_silent'
                               /\ silence_start_time' = now
                               /\ EntrySuffix = "protest" ]_vars

\* C3, amended: the same, the fifth poke escalating provided no decay
\* decrement took place among the five.
Escalation ==
    [][ /\ EscalationExact
        /\ (FixedAtFive /\ AcceptedStep) =>
              /\ n_inc' <= 4 => ~ is_silent'
              /\ (n_inc' = 5 /\ n_dec' = 0) =>
                    /\ is_silent'
                    /\ silence_start_time' = now
                    /\ EntrySuffix = "protest" ]_vars

\* the fifth poke has just escalated, its reply is being generated
EscalationWitness ==
    /\ FixedAtFive
    /\ is_silent
    /\ silence_start_time = now
    /\ n_inc = 5
    /\ n_dec = 0
    /\ \E c \in BagToSet(cmd) : c.pc = "reply" /\ c.suffix = "protest"

\* ------------------------------------------------------------------------- C4
\* C4: is_silent falls only in the step in which a handler is entered with
\* now - silence_start_time > current_silence_duration; every event that
\* arrives then makes is_silent false and the counter fresh, and its own
\* logic runs on the fresh counter (an accepted poke counts as the first,
\* nothing is ignored as silenced).
LazySilenceExit ==
    [][ /\ (is_silent /\ ~ is_silent') =>
              /\ CommandEntry
              /\ now - silence_start_time > current_silence_duration
        /\ ( /\ CommandEntry
             /\ is_silent
             /\ now - silence_start_time > current_silence_duration ) =>
              /\ ~ is_silent'
              /\ returned'.outcome # "Ignore"
              /\ n_dec' = 0
              /\ n_inc' <= 1
              /\ poke_count' = n_inc' ]_vars

\* a message has just ended a silence whose window had elapsed
LazySilenceExitWitness ==
    /\ returned.outcome = "NotApplicable"
    /\ ~ is_silent
    /\ silence_start_time > 0
    /\ now - silence_start_time > current_silence_duration
    /\ poke_count = 0
    /\ n_inc = 0

\* ------------------------------------------------------------------------- C5
\* C5 as stated: in the step in which is_silent falls, poke_count is 0 once
\* the handler's segment has run, also when the event is an accepted poke.
ResetOnFlipAsStated ==
    [][ (is_silent /\ ~ is_silent') => poke_count' = 0 ]_vars

\* C5, amended: in the step in which is_silent falls, poke_count is 0 once
\* the handler's segment has run, or 1 when the event is itself an accepted
\* poke aimed at the agent.
ResetOnFlip ==
    [][ (is_silent /\ ~ is_silent') =>
           poke_count' = IF AcceptedStep THEN 1 ELSE 0 ]_vars

\* an accepted poke has ended a silence and is counted as the first
ResetOnFlipWitness ==
    /\ ~ is_silent
    /\ silence_start_time > 0
    /\ now - silence_start_time = current_silence_duration + 1
    /\ last_poke_received_time = now
    /\ poke_count = 1

\* ------------------------------------------------------------------------- C6
\* a step of the handler of a poke notice aimed at someone else: its entry
\* (events ignored as silenced included) or the resumption of its coroutine
ThirdPartyStep ==
    \/ CommandEntry /\ EntryKind \in {"other", "any"}
    \/ \E c \in BagToSet(cmd (-) cmd') : KindOf(c) = "other"

\* nothing but the silence gate and the follow-poke / no-op branch runs
FollowBranchOnly ==
    /\ returned'.outcome \in {"none", "Ignore", "NoOp", "FollowPoke"}
    /\ \A c \in BagToSet(cmd' (-) cmd) : KindOf(c) = "other"
    /\ UNCHANGED << last_poke_time, last_poke_received_time,
                    current_poke_threshold, current_silence_duration,
                    silence_start_time, decay_task, counter_lock, tasks >>

\* C6 as stated: the handler of a third-party poke runs only the
\* follow-poke / no-op branch and leaves poke_count as it was, in every
\* state, also when is_silent holds and the window has elapsed.
ThirdPartyFrameAsStated ==
    [][ ThirdPartyStep => FollowBranchOnly /\ poke_count' = poke_count ]_vars

\* C6, amended: the same, except that an event arriving while is_silent
\* holds and the window has elapsed sets poke_count to 0.
ThirdPartyFrame ==
    [][ ThirdPartyStep =>
           /\ FollowBranchOnly
           /\ poke_count' =
                 IF /\ CommandEntry
                    /\ is_silent
                    /\ now - silence_start_time > current_silence_duration
                 THEN 0
                 ELSE poke_count ]_vars

\* a third-party poke has just ended a silence whose window had elapsed
ThirdPartyFrameWitness ==
    /\ returned.kind = "other"
    /\ returned.outcome = "NoOp"
    /\ ~ is_silent
    /\ silence_start_time > 0
    /\ now - silence_start_time > current_silence_duration
    /\ poke_count = 0
    /\ last_poke_time > 0

\* ------------------------------------------------------------------------- C7
\* C7: the increments made by overlapping handlers on a fresh counter and
\* the decrements made by the decay loop all count: poke_count is the
\* number of increments less the number of decrements performed since the
\* counter was last fresh.
NoLostUpdates == poke_count = n_inc - n_dec

\* two handlers that have incremented are still running, the decay loop has
\* decremented in between
NoLostUpdatesWitness ==
    /\ n_inc >= 2
    /\ n_dec >= 1
    /\ BagCardinality(cmd) = 2
    /\ \A c \in BagToSet(cmd) : KindOf(c) = "self"

\* ------------------------------------------------------------------------- C8
\* C8: at most one decay task is alive (created and neither failed nor
\* cancelled) in every state, whatever handlers call
\* start_decay_task_if_needed and whenever tasks end.
AtMostOneDecayLoop ==
    Cardinality({ t \in Tasks : tasks[t].st \in {"created", "sleeping"} }) <= 1

\* a task has ended and the next accepted poke has started another, which
\* has begun to sleep
AtMostOneDecayLoopWitness ==
    /\ Len(tasks) = 2
    /\ tasks[1].st \in {"failed", "cancelled"}
    /\ tasks[2].st = "sleeping"
    /\ decay_task = 2

\* ------------------------------------------------------------------------- C9
\* a wake of the decay loop
DecayStep ==
    /\ Len(tasks') = Len(tasks)
    /\ \E t \in Tasks : tasks[t].st = "sleeping" /\ tasks'[t] # tasks[t]

\* C9: a wake of the decay loop leaves poke_count alone or lowers it by
\* exactly 1, not below 0, and lowers it only if in the state it acts on
\* is_silent is false, poke_count > 0 and
\* now - last_poke_time >= DECAY_INTERVAL.
DecayRule ==
    [][ DecayStep =>
           \/ poke_count' = poke_count
           \/ /\ poke_count' = poke_count - 1
              /\ poke_count' >= 0
              /\ ~ is_silent
              /\ poke_count > 0
              /\ now - last_poke_time >= DECAY_INTERVAL ]_vars

\* the loop has just decremented, exactly DECAY_INTERVAL after the last
\* increment
DecayRuleWitness ==
    /\ n_dec = 1
    /\ n_inc = 1
    /\ poke_count = 0
    /\ ~ is_silent
    /\ now - last_poke_time = DECAY_INTERVAL

\* ------------------------------------------------------------------------ C10
\* C10: a poke aimed at the agent that arrives while is_silent is false
\* less than INSENSITIVITY_DURATION after last_poke_received_time is
\* ignored: poke_count, last_poke_time and last_poke_received_time keep
\* their values, nothing is sent and no reply is generated; one that
\* arrives at INSENSITIVITY_DURATION or later (or is the first) is
\* accepted: last_poke_received_time becomes now and the counter is
\* incremented and stamped.
Insensitivity ==
    [][ (CommandEntry /\ EntryKind = "self" /\ ~ is_silent) =>
           IF /\ last_poke_received_time > 0
              /\ now - last_poke_received_time < INSENSITIVITY_DURATION
           THEN /\ returned'.outcome = "Insensitive"
                /\ cmd' = cmd
                /\ last_sent_at' = last_sent_at
                /\ UNCHANGED << poke_count, last_poke_time,
                                last_poke_received_time >>
           ELSE /\ returned'.outcome # "Insensitive"
                /\ last_poke_received_time' = now
                /\ poke_count' = poke_count + 1
                /\ last_poke_time' = now ]_vars

\* a poke arriving in the second of the accepted one has been ignored
InsensitivityWitness ==
    /\ returned.outcome = "Insensitive"
    /\ returned.kind = "self"
    /\ ~ is_silent
    /\ last_poke_received_time = now
    /\ poke_count = 1

\* ------------------------------------------------------------------------ C11
\* a step in which a poke aimed at the agent is accepted and counted,
\* whether or not the handler fails later in the step
CountedEntry ==
    /\ CommandEntry
    /\ EntryKind = "self"
    /\ n_inc' = (IF is_silent THEN 0 ELSE n_inc) + 1

\* C11: an accepted poke handled while last_poke_back_time # 0 and
\* now - last_poke_back_time < POKE_BACK_COOLDOWN does not start a
\* reflect-poke, whatever the reflect roll: its handler generates a reply
\* or does nothing, and neither its entry nor the end of its reply changes
\* last_poke_back_time.
CooldownGuard ==
    [][ /\ ( /\ CountedEntry
             /\ last_poke_back_time > 0
             /\ now - last_poke_back_time < POKE_BACK_COOLDOWN ) =>
              /\ \A c \in BagToSet(cmd' (-) cmd) : c.pc = "reply"
              /\ cmd' = cmd => returned'.outcome = "NoOp"
              /\ last_poke_back_time' = last_poke_back_time
        /\ (\E c \in BagToSet(cmd (-) cmd') : c.pc = "reply") =>
              /\ returned'.outcome = "GenerateReply"
              /\ last_poke_back_time' = last_poke_back_time ]_vars

\* an accepted poke has been left unanswered 3 seconds after the start of
\* the handler that poked back
CooldownGuardWitness ==
    /\ returned.kind = "self"
    /\ returned.outcome = "NoOp"
    /\ last_poke_received_time = now
    /\ last_poke_back_time > 0
    /\ now - last_poke_back_time = POKE_DELAY

\* ------------------------------------------------------------------------ C12
\* a step in which a handler of AntiPokeCommand meets an error
FailureStep == returned'.who = "command" /\ returned'.outcome = "Failure"

\* no decay task is stopped by the step
TasksKeptRunning ==
    \A t \in Tasks : tasks[t].st \in {"created", "sleeping"} =>
                        tasks'[t] = tasks[t]

\* C12: an error met while one event is handled is returned by its handler
\* as a failure; the step leaves no counted poke without a drawn threshold,
\* stops no decay task and ends no coroutine but the failing one.
FailureContained ==
    [][ FailureStep =>
           /\ CountedEntry => current_poke_threshold' # 0
           /\ TasksKeptRunning
           /\ \/ cmd' = cmd
              \/ \E c \in BagToSet(cmd) : cmd' = cmd (-) One(c) ]_vars

\* ------------------------------------------------------------------------ C13
\* a decay task is alive
LoopAlive == \E t \in Tasks : tasks[t].st \in {"created", "sleeping"}

\* C13: a decay task that ends by an error clears the handle, one that is
\* cancelled ends as cancelled and keeps it; an accepted poke met by no
\* live task starts exactly one new task and makes the handle name it, and
\* an accepted poke met by a live task changes neither tasks nor handle.
SelfHealing ==
    [][ /\ \A t \in Tasks :
              /\ (tasks[t].st # "failed" /\ tasks'[t].st = "failed") =>
                    decay_task' = 0
              /\ (tasks[t].st # "cancelled" /\ tasks'[t].st = "cancelled") =>
                    decay_task' = decay_task
        /\ CountedEntry =>
              IF LoopAlive
              THEN tasks' = tasks /\ decay_task' = decay_task
              ELSE /\ tasks' = Append(tasks, [st |-> "created", wake |-> 0])
                   /\ decay_task' = Len(tasks) + 1 ]_vars

\* the first task was cancelled and an accepted poke has started a second
SelfHealingWitness ==
    /\ Len(tasks) = 2
    /\ tasks[1].st = "cancelled"
    /\ tasks[2].st = "created"
    /\ decay_task = 2
    /\ last_poke_received_time = now

\* ------------------------------------------------------------------------ C14
\* both parameters hold values drawn within the configured bounds
ParamsDrawn ==
    /\ current_poke_threshold \in POKE_COUNT_MIN .. POKE_COUNT_MAX
    /\ current_silence_duration \in
          SILENCE_DURATION_MIN .. SILENCE_DURATION_MAX

\* C14: current_poke_threshold and current_silence_duration change only
\* in the step of an accepted poke that finds current_poke_threshold = 0
\* or that sets is_silent, and both then hold drawn values; an accepted
\* poke that finds current_poke_threshold = 0 or sets is_silent leaves
\* both drawn; all other steps leave both alone.
Regeneration ==
    [][ /\ ( \/ current_poke_threshold' # current_poke_threshold
             \/ current_silence_duration' # current_silence_duration ) =>
              /\ CountedEntry
              /\ current_poke_threshold = 0 \/ is_silent'
              /\ ParamsDrawn'
        /\ (CountedEntry /\ (current_poke_threshold = 0 \/ is_silent')) =>
              ParamsDrawn' ]_vars

\* ------------------------------------------------------------------------ C15
\* C15: every write of poke_count or last_poke_time by a handler or by the
\* decay task is made with the counter lock held.
LockDiscipline == writes # "unlocked"

\* ------------------------------------------------------------------------ C16
\* the coroutine of a handler that generates the protest reply
Protesting(c) == c.pc = "reply" /\ c.suffix = "protest"

\* C16: the accepted poke that sets is_silent goes on to generate_reply
\* with the protest suffix, whatever the reflect roll and the cooldown, and
\* returns GenerateReply when the reply is done; no other event selects
\* the protest suffix, and the escalating event is not one of the ignored.
EscalationAnswered ==
    [][ /\ (CountedEntry /\ is_silent') =>
              /\ BagCardinality(cmd') = BagCardinality(cmd) + 1
              /\ \A c \in BagToSet(cmd' (-) cmd) : Protesting(c)
        /\ (\E c \in BagToSet(cmd' (-) cmd) : c.suffix = "protest") =>
              CountedEntry /\ is_silent'
        /\ \A c \in BagToSet(cmd (-) cmd') :
              Protesting(c) =>
                 returned' = [who |-> "command", kind |-> "self",
                              suffix |-> "protest",
                              outcome |-> "GenerateReply"] ]_vars

\* the protest reply of the escalating event is done, the cooldown being
\* over at the time
EscalationAnsweredWitness ==
    /\ returned.outcome = "GenerateReply"
    /\ returned.suffix = "protest"
    /\ is_silent
    /\ last_poke_back_time = 0

\* ------------------------------------------------------------------------ C17
\* C17: last_poke_time changes only in the step of an accepted poke, the
\* step that adds 1 to the counter; no other step changes it.
StampOnlyWithIncrement ==
    [][ last_poke_time' # last_poke_time =>
           /\ CountedEntry
           /\ poke_count' = (IF is_silent THEN 0 ELSE poke_count) + 1 ]_vars

\* ------------------------------------------------------------------------ C18
\* C18: in the step in which a handler of AntiPokeCommand emits SEND_POKE
\* (reflect-poke or follow-poke) is_silent is false, also when the handler
\* chose to poke before another handler set is_silent.
NoPokeInSilence ==
    [][ (cmd' # cmd /\ BagCardinality(cmd') = BagCardinality(cmd)) =>
           ~ is_silent ]_vars

\* ------------------------------------------------------------------------ C19
\* C19: whenever is_silent is false and a threshold has been drawn,
\* poke_count is below current_poke_threshold (every state lies between
\* handlers' uninterrupted steps, so none is between an increment and its
\* comparison with the threshold).
CountBelowThreshold ==
    (~ is_silent /\ current_poke_threshold # 0) =>
       poke_count < current_poke_threshold

\* one poke short of a threshold of 3
CountBelowThresholdWitness ==
    /\ ~ is_silent
    /\ current_poke_threshold = 3
    /\ poke_count = 2
====
